---- MODULE Spec2Model ----
(***************************************************************************)
(* Request orchestration and UI-state gating of the xinference web UI.     *)
(*                                                                         *)
(* The model follows the React components of the repository:               *)
(*   RunningModels   scenes/running_models/index.js                        *)
(*   ModelDashboard  scenes/model_dashboard/index.js (lines 1-186)         *)
(*   MenuSide        scenes/model_dashboard/index.js (lines 220-409)       *)
(*   fetcher         scenes/model_dashboard/index.js (lines 411-428)       *)
(*   LaunchImage     scenes/launch_model/launchImage.js                    *)
(*   AudioCard       unnamed/part_000 (lines 1-233)                        *)
(*   ModelCard       unnamed/part_000 (lines 235-355)                      *)
(*                                                                         *)
(* Execution model: one JavaScript event loop.  A step of the model is one *)
(* macrotask (a user event or the settlement of a network promise)         *)
(* together with the microtasks it queues, the React render of the state   *)
(* updates it batched and the effects of that render.  Handlers read the   *)
(* flags of the latest render.                                             *)
(***************************************************************************)
EXTENDS Integers, Sequences, FiniteSets, TLC

VARIABLES
    isCallingApi,      \* ApiContext: a mutating call is in progress
    isUpdatingModel,   \* ApiContext: a list refresh is in progress
    errorMsg,          \* ApiContext: shared error-display slot
    page,              \* the scene that is mounted
    lists,             \* RunningModels: llmData, embeddingModelData, imageModelData, rerankModelData
    registrationData,  \* launch panel: registrationData
    customDeleted,     \* AudioCard: customDeleted
    modelData,         \* ModelDashboard: modelData
    isCalling,         \* ModelDashboard: isCalling
    invs,              \* invocations with a promise chain still pending
    hlog,              \* the calls made by the latest step, in order
    fin,               \* the invocation whose chain ended in the latest step
    token,             \* the cookie named token
    options,           \* fetcher: the options of the caller
    sent,              \* fetcher: the options handed to fetch
    searchTerm,        \* launch panel: searchTerm
    modelAbility,      \* launch panel: modelAbility
    registration,      \* launch panel: the registration handed to filter
    shown,             \* launch panel: what filter answered, and which filter
    selected           \* AudioCard: selected

\* The state of the HTTP client wrapper and of the filter of a launch panel.
aside == <<token, options, sent, searchTerm, modelAbility, registration, shown, selected>>

\* The search box and the ability selector of the mounted launch panel, and
\* the selected state of its card.
inputs == <<searchTerm, modelAbility, selected>>
\* aside without them.
others == <<token, options, sent, registration, shown>>

vars == <<isCallingApi, isUpdatingModel, errorMsg, page, lists, registrationData,
          customDeleted, modelData, isCalling, invs, hlog, fin, aside>>

----------------------------------------------------------------------------
(* Bounds *)

\* Most promise chains pending at once.
MaxActive == 2

----------------------------------------------------------------------------
(* Values *)

\* The scenes.  MenuSide routes between "launch" and "running_models", which share
\* ApiContext.  ModelDashboard reads no ApiContext, computes its own endPoint and
\* has no entry in navItems: it is the single scene of the application it belongs
\* to.  page = "none": loaded, no scene mounted yet.
Pages == {"launch", "running_models", "model_dashboard"}
Routed == {"launch", "running_models"}
\* The launch panels: "launch" fetches its registrations with one GET
\* (LaunchImage, LaunchEmbedding, LaunchLLM), "launch_model" with one GET for the
\* list and one per registration for its details (LaunchModel).
Panels == {"launch", "launch_model"}

\* HTTP statuses a response can carry.  An outcome is a status, or 0 for a fetch
\* promise that rejects (transport failure).
Statuses == {204, 404, 500}
Outcomes == Statuses \cup {0}
IsRejected(o) == o = 0

\* The row published while a mutating call is in progress.
Placeholder == [id |-> "Loading, do not refresh page...", url |-> "IS_LOADING",
                model_type |-> "none"]

PlaceholderLists == [llm |-> <<Placeholder>>, embedding |-> <<Placeholder>>,
                     image |-> <<Placeholder>>, rerank |-> <<Placeholder>>]

EmptyLists == [llm |-> <<>>, embedding |-> <<>>, image |-> <<>>, rerank |-> <<>>]

\* Instance maps the list endpoint answers with, as Object.entries sees them.
Entry(k, t, own) == [key |-> k, value |-> [model_type |-> t, id |-> own, url |-> own]]

ServerMaps ==
    { <<>>,
      <<Entry("m1", "LLM", "own"), Entry("m2", "embedding", "m2"), Entry("m3", "audio", "m3")>>,
      <<Entry("m4", "image", "m4"), Entry("m5", "rerank", "IS_LOADING")>> }

\* Registration lists the registry endpoint answers with.
RegResponses ==
    { <<>>,
      <<[model_name |-> "a", is_builtin |-> TRUE], [model_name |-> "b", is_builtin |-> FALSE]>> }
\* The same, and a response with two built-in registrations.
PanelResponses ==
    RegResponses \cup
    { <<[model_name |-> "c", is_builtin |-> TRUE], [model_name |-> "a", is_builtin |-> TRUE]>> }

\* JavaScript values: undefined, a string (chars: its characters), a number.
Undefined == [type |-> "undefined", chars |-> ""]
Text(cs) == [type |-> "string", chars |-> cs]
Number == [type |-> "number", chars |-> ""]

\* The options of a fetch: given tells an object from undefined, method and
\* headers are "" and the empty map when the object has none.
NoOptions == [given |-> FALSE, method |-> "", hasHeaders |-> FALSE, headers |-> <<>>]

\* No registration: the element handed to filter is undefined.
NoRegistration == [given |-> FALSE, model_name |-> Undefined,
                   model_description |-> Undefined,
                   hasAbility |-> FALSE, model_ability |-> {}]

\* filter was not called yet.
NotShown == [by |-> "none", result |-> "none"]

\* An invocation of a handler: kind names the handler, target the instance it
\* acts on, pending the requests (and body reads) it has outstanding, calls the
\* requests it has issued, in order.  live: the component that started it is
\* still mounted.  probe: the status of its first response, outcome: that of its
\* last, opened: it reached its success side effect (window.open, navigate),
\* data: the instance map it handed to the setters of a mounted view, uuid: the identifier
\* it generated, uses: the identifiers it sent or opened, in order.
NoInv == [id |-> 0, kind |-> "none", target |-> "", live |-> FALSE, pending |-> {},
          calls |-> <<>>, probe |-> 0, outcome |-> 0, opened |-> FALSE, data |-> <<>>,
          uuid |-> 0, uses |-> <<>>]

\* A new invocation that has issued request rq.
NewInv(i, k, rq, tg) ==
    [id |-> i, kind |-> k, target |-> tg, live |-> TRUE, pending |-> {rq},
     calls |-> <<rq>>, probe |-> 0, outcome |-> 0, opened |-> FALSE, data |-> <<>>,
     uuid |-> 0, uses |-> <<>>]

\* Invocation x after it issued request rq once its pending one was answered.
Then(x, rq) == [x EXCEPT !.pending = {rq}, !.calls = @ \o <<rq>>]

FreeIds(iv) == (1..MaxActive) \ {x.id : x \in iv}
FreeId(iv) == CHOOSE i \in FreeIds(iv) : \A j \in FreeIds(iv) : i <= j

\* response.ok
IsOk(status) == status \in Statuses /\ status >= 200 /\ status <= 299

----------------------------------------------------------------------------
(* RunningModels.update and the effect that calls it *)

\* NewValue with the spread after the keys: { id: key, url: key, ...value }.
NewValue_SpreadLast(e) == e.value

\* The .then((data) => ...) handler of update: the four lists built from the map.
NewValue(e) == [e.value EXCEPT !.id = e.key, !.url = e.key]
Rows(data) == [i \in 1..Len(data) |-> NewValue(data[i])]
OfType(rows, t) == SelectSeq(rows, LAMBDA r : r.model_type = t)

\* Partition with a final else that pushes to newLlmData.
Partition_ElseLlm(data) ==
    [llm |-> SelectSeq(Rows(data), LAMBDA r : r.model_type \notin {"embedding", "image", "rerank"}),
     embedding |-> OfType(Rows(data), "embedding"),
     image |-> OfType(Rows(data), "image"),
     rerank |-> OfType(Rows(data), "rerank")]

Partition(data) ==
    [llm |-> OfType(Rows(data), "LLM"),
     embedding |-> OfType(Rows(data), "embedding"),
     image |-> OfType(Rows(data), "image"),
     rerank |-> OfType(Rows(data), "rerank")]

\* EffectRuns with the dependency list [] in place of [isCallingApi].
EffectRuns_MountOnly(c, pg, mounted) == pg = "running_models" /\ mounted

\* Whether the render that follows a step runs useEffect(() => update(isCallingApi),
\* [isCallingApi]): on mount, and when isCallingApi differs from the last render.
EffectRuns(c, pg, mounted) == pg = "running_models" /\ (mounted \/ c # isCallingApi)

\* Render with an update that goes to the GET on both branches, publishing no
\* placeholder.
Render_NoPlaceholder(c, u, ls, iv, log, pg, mounted) ==
    /\ isCallingApi' = c
    /\ page' = pg
    /\ IF EffectRuns(c, pg, mounted)
       THEN /\ FreeIds(iv) # {}
            /\ lists' = ls
            /\ isUpdatingModel' = TRUE
            /\ invs' = iv \cup {NewInv(FreeId(iv), "refresh", "LIST_GET", "")}
            /\ hlog' = log \o <<"update", "setIsUpdatingModel(true)", "LIST_GET">>
       ELSE /\ lists' = ls
            /\ isUpdatingModel' = u
            /\ invs' = iv
            /\ hlog' = log

\* The end of a step: the batched state (c: isCallingApi, u: isUpdatingModel,
\* ls: lists, iv: invocations, log: calls so far) is rendered on page pg and the
\* effect of RunningModels, when it runs, calls update(c).
Render(c, u, ls, iv, log, pg, mounted) ==
    /\ isCallingApi' = c
    /\ page' = pg
    /\ IF EffectRuns(c, pg, mounted)
       THEN IF c
            THEN /\ lists' = PlaceholderLists
                 /\ isUpdatingModel' = u
                 /\ invs' = iv
                 /\ hlog' = log \o <<"update", "setData(placeholder)">>
            ELSE /\ FreeIds(iv) # {}
                 /\ lists' = ls
                 /\ isUpdatingModel' = TRUE
                 /\ invs' = iv \cup {NewInv(FreeId(iv), "refresh", "LIST_GET", "")}
                 /\ hlog' = log \o <<"update", "setIsUpdatingModel(true)", "LIST_GET">>
       ELSE /\ lists' = ls
            /\ isUpdatingModel' = u
            /\ invs' = iv
            /\ hlog' = log

----------------------------------------------------------------------------
(* RunningModels: the list refresh *)

\* setLlmData ... setRerankModelData of an instance that is no longer mounted
\* change nothing; the setters of ApiContext always act.
RefreshDone(x, data) ==
    /\ x \in invs /\ x.kind = "refresh"
    /\ fin' = [x EXCEPT !.outcome = 204, !.data = IF x.live THEN data ELSE <<>>]
    /\ Render(isCallingApi, FALSE, IF x.live THEN Partition(data) ELSE lists,
              invs \ {x}, <<"update.then", "setData", "setIsUpdatingModel(false)">>,
              page, FALSE)
    /\ UNCHANGED <<aside, errorMsg, registrationData, customDeleted, modelData, isCalling>>

\* RefreshFailed with a catch that also publishes four empty lists.
RefreshFailed_ClearsLists(x) ==
    /\ x \in invs /\ x.kind = "refresh"
    /\ fin' = [x EXCEPT !.outcome = 0]
    /\ Render(isCallingApi, FALSE, IF x.live THEN EmptyLists ELSE lists, invs \ {x},
              <<"update.catch", "setData", "setIsUpdatingModel(false)">>, page, FALSE)
    /\ UNCHANGED <<aside, errorMsg, registrationData, customDeleted, modelData, isCalling>>

\* RefreshFailed without setIsUpdatingModel(false) in the catch.
RefreshFailed_KeepsFlag(x) ==
    /\ x \in invs /\ x.kind = "refresh"
    /\ fin' = [x EXCEPT !.outcome = 0]
    /\ Render(isCallingApi, isUpdatingModel, lists, invs \ {x},
              <<"update.catch">>, page, FALSE)
    /\ UNCHANGED <<aside, errorMsg, registrationData, customDeleted, modelData, isCalling>>

\* The fetch rejects, or response.json() rejects, or Object.entries(data) throws.
RefreshFailed(x) ==
    /\ x \in invs /\ x.kind = "refresh"
    /\ fin' = [x EXCEPT !.outcome = 0]
    /\ Render(isCallingApi, FALSE, lists, invs \ {x},
              <<"update.catch", "setIsUpdatingModel(false)">>, page, FALSE)
    /\ UNCHANGED <<aside, errorMsg, registrationData, customDeleted, modelData, isCalling>>

----------------------------------------------------------------------------
(* RunningModels: Terminate Model *)

RowsOf(l) == {l[i] : i \in 1..Len(l)}
\* renderCell draws no button for the placeholder row.
Buttons(l) == {r \in RowsOf(l) : r.url # "IS_LOADING"}
AllButtons == Buttons(lists.llm) \cup Buttons(lists.embedding)
                  \cup Buttons(lists.image) \cup Buttons(lists.rerank)

\* if (isCallingApi || isUpdatingModel) return
TerminateGate == ~(isCallingApi \/ isUpdatingModel)

TerminateClick(r) ==
    /\ page = "running_models" /\ r \in AllButtons
    /\ TerminateGate
    /\ FreeIds(invs) # {}
    /\ fin' = NoInv
    /\ Render(TRUE, isUpdatingModel, lists,
              invs \cup {NewInv(FreeId(invs), "terminate", "DELETE", r.url)},
              <<"terminate", "setIsCallingApi(true)", "DELETE">>, page, FALSE)
    /\ UNCHANGED <<aside, errorMsg, registrationData, customDeleted, modelData, isCalling>>

\* .then(response => { response.json() }).then(() => setIsCallingApi(false))
\* .catch(error => { ...; setIsCallingApi(false) }): the body promise is dropped.
TerminateSettle(o) ==
    IF IsRejected(o) THEN <<"terminate.catch", "setIsCallingApi(false)">>
                     ELSE <<"terminate.then", "setIsCallingApi(false)">>

TerminateDone(x, o) ==
    /\ x \in invs /\ x.kind = "terminate"
    /\ fin' = [x EXCEPT !.outcome = o]
    /\ Render(FALSE, isUpdatingModel, lists, invs \ {x}, TerminateSettle(o), page, FALSE)
    /\ UNCHANGED <<aside, errorMsg, registrationData, customDeleted, modelData, isCalling>>

----------------------------------------------------------------------------
(* RunningModels: Launch Web UI *)

OpenUiGate == ~(isCallingApi \/ isUpdatingModel)

\* OpenUiClick with the create POST issued next to the probe, not chained on it.
OpenUiClick_Eager(r) ==
    /\ page = "running_models" /\ r \in Buttons(lists.llm)
    /\ OpenUiGate
    /\ FreeIds(invs) # {}
    /\ fin' = NoInv
    /\ Render(TRUE, isUpdatingModel, lists,
              invs \cup {[NewInv(FreeId(invs), "openUi", "HEAD", r.url)
                             EXCEPT !.pending = {"HEAD", "UI_POST"},
                                    !.calls = <<"HEAD", "UI_POST">>]},
              <<"openUi", "setIsCallingApi(true)", "HEAD", "UI_POST">>, page, FALSE)
    /\ UNCHANGED <<aside, errorMsg, registrationData, customDeleted, modelData, isCalling>>

OpenUiClick(r) ==
    /\ page = "running_models" /\ r \in Buttons(lists.llm)
    /\ OpenUiGate
    /\ FreeIds(invs) # {}
    /\ fin' = NoInv
    /\ Render(TRUE, isUpdatingModel, lists,
              invs \cup {NewInv(FreeId(invs), "openUi", "HEAD", r.url)},
              <<"openUi", "setIsCallingApi(true)", "HEAD">>, page, FALSE)
    /\ UNCHANGED <<aside, errorMsg, registrationData, customDeleted, modelData, isCalling>>

\* ProbeBranch with the two status tests exchanged.
ProbeBranch_Swapped(o) ==
    IF IsRejected(o) THEN "catch"
    ELSE IF IsOk(o) THEN "create"
    ELSE IF o = 404 THEN "open"
    ELSE "error"

\* ProbeBranch with response.status !== 404 in place of response.ok.
ProbeBranch_Not404Opens(o) ==
    IF IsRejected(o) THEN "catch"
    ELSE IF o = 404 THEN "create"
    ELSE "open"

\* What the handlers of the HEAD promise do with outcome o:
\* "create" (404), "open" (response.ok), "error" (another status), "catch".
ProbeBranch(o) ==
    IF IsRejected(o) THEN "catch"
    ELSE IF o = 404 THEN "create"
    ELSE IF IsOk(o) THEN "open"
    ELSE "error"

HeadDone(x, o) ==
    /\ x \in invs /\ x.kind = "openUi" /\ "HEAD" \in x.pending
    /\ LET b == ProbeBranch(o)
           y == [x EXCEPT !.probe = o]
       IN IF b = "create"
          THEN /\ fin' = NoInv
               /\ Render(isCallingApi, isUpdatingModel, lists,
                         (invs \ {x}) \cup {Then(y, "UI_POST")},
                         <<"openUi.then", "UI_POST">>, page, FALSE)
          ELSE IF b = "open"
          THEN /\ fin' = [y EXCEPT !.outcome = o, !.opened = TRUE]
               /\ Render(FALSE, isUpdatingModel, lists, invs \ {x},
                         <<"openUi.then", "window.open", "setIsCallingApi(false)">>,
                         page, FALSE)
          ELSE /\ fin' = [y EXCEPT !.outcome = o]
               /\ Render(FALSE, isUpdatingModel, lists, invs \ {x},
                         <<IF b = "catch" THEN "openUi.catch" ELSE "openUi.then",
                           "console.error", "setIsCallingApi(false)">>, page, FALSE)
    /\ UNCHANGED <<aside, errorMsg, registrationData, customDeleted, modelData, isCalling>>

\* The create POST settles: o is its outcome, json whether response.json() resolves.
\* .then(response => response.json()).then(() => window.open(...))
\* .finally(() => setIsCallingApi(false)); a rejection goes on to the outer .catch.
\* UiPostOpens with a test of response.ok before the window is opened.
UiPostOpens_OkOnly(o, json) == IsOk(o) /\ json

UiPostOpens(o, json) == ~IsRejected(o) /\ json

UiPostDone(x, o, json) ==
    /\ x \in invs /\ x.kind = "openUi" /\ "UI_POST" \in x.pending
    /\ IF UiPostOpens(o, json)
       THEN /\ fin' = [x EXCEPT !.outcome = o, !.opened = TRUE]
            /\ Render(FALSE, isUpdatingModel, lists, invs \ {x},
                      <<"openUi.post.then", "window.open", "setIsCallingApi(false)">>,
                      page, FALSE)
       ELSE /\ fin' = [x EXCEPT !.outcome = o]
            /\ Render(FALSE, isUpdatingModel, lists, invs \ {x},
                      <<"openUi.post.finally", "setIsCallingApi(false)",
                        "openUi.catch", "console.error", "setIsCallingApi(false)">>,
                      page, FALSE)
    /\ UNCHANGED <<aside, errorMsg, registrationData, customDeleted, modelData, isCalling>>

----------------------------------------------------------------------------
(* Mounting and unmounting of scenes *)

\* Kinds of invocation whose callbacks set state of the component that started
\* them; once that component is unmounted those setters change nothing.
LocalKinds == {"refresh", "regFetch", "regDetails", "regDetailsRejected", "customDelete",
               "dashDelete", "dashRefresh"}
Unmounted(iv) == {IF x.kind \in LocalKinds THEN [x EXCEPT !.live = FALSE] ELSE x : x \in iv}

\* PanelGate without the early return.
PanelGate_Open(c, u) == TRUE

\* if (isCallingApi || isUpdatingModel) return, in update of a launch panel
PanelGate(c, u) == ~(c \/ u)

\* The scene pg is mounted in place of the current one: the state of the old
\* scene is dropped, the new one starts from its useState defaults and runs its
\* mount effect.  c, iv and log are the batched state of the step so far.
Mount(pg, c, iv, log) ==
    /\ registrationData' = <<>>
    /\ searchTerm' = Text("")
    /\ modelAbility' = "all"
    /\ selected' = FALSE
    /\ customDeleted' = FALSE
    /\ modelData' = <<>>
    /\ isCalling' = FALSE
    /\ IF pg = "launch" /\ PanelGate(c, isUpdatingModel)
       THEN /\ FreeIds(iv) # {}
            /\ Render(TRUE, isUpdatingModel, EmptyLists,
                      Unmounted(iv) \cup {NewInv(FreeId(iv), "regFetch", "REG_GET", "")},
                      log \o <<"panel.update", "setIsCallingApi(true)", "REG_GET">>, pg, TRUE)
       ELSE IF pg = "launch_model" /\ PanelGate(c, isUpdatingModel)
       THEN /\ FreeIds(iv) # {}
            /\ Render(TRUE, isUpdatingModel, EmptyLists,
                      Unmounted(iv) \cup {NewInv(FreeId(iv), "regDetails", "REG_GET", "")},
                      log \o <<"LaunchModel.update", "setIsCallingApi(true)", "REG_GET">>,
                      pg, TRUE)
       ELSE IF pg = "model_dashboard"
       THEN /\ FreeIds(iv) # {}
            /\ Render(c, isUpdatingModel, EmptyLists,
                      Unmounted(iv) \cup {NewInv(FreeId(iv), "dashRefresh", "DASH_GET", "")},
                      log \o <<"ModelDashboard.update", "DASH_GET">>, pg, TRUE)
       ELSE Render(c, isUpdatingModel, EmptyLists, Unmounted(iv), log, pg, TRUE)

\* MenuSide: navigate(`/${link}`)
Navigate(pg) ==
    /\ pg \in Pages \cup Panels /\ pg # page
    /\ page = "none" \/ (page \in Routed \cup Panels /\ pg \in Routed \cup Panels)
    /\ fin' = NoInv
    /\ Mount(pg, isCallingApi, invs, <<"navigate">>)
    /\ UNCHANGED <<others, errorMsg>>

----------------------------------------------------------------------------
(* Launch panel: the registration fetch (LaunchImage.update) *)

\* Builtin without the filter.
Builtin_All(regs) == regs

Builtin(regs) == SelectSeq(regs, LAMBDA v : v.is_builtin)

RegFetchDone(x, regs) ==
    /\ x \in invs /\ x.kind = "regFetch"
    /\ fin' = [x EXCEPT !.outcome = 204]
    /\ registrationData' = IF x.live THEN Builtin(regs) ELSE registrationData
    /\ Render(FALSE, isUpdatingModel, lists, invs \ {x},
              <<"panel.update.try", "setRegistrationData", "setIsCallingApi(false)">>,
              page, FALSE)
    /\ UNCHANGED <<aside, errorMsg, customDeleted, modelData, isCalling>>

\* RegFetchFailed without the finally block.
RegFetchFailed_NoFinally(x) ==
    /\ x \in invs /\ x.kind = "regFetch"
    /\ fin' = [x EXCEPT !.outcome = 0]
    /\ Render(isCallingApi, isUpdatingModel, lists, invs \ {x},
              <<"panel.update.catch", "console.error">>, page, FALSE)
    /\ UNCHANGED <<aside, errorMsg, registrationData, customDeleted, modelData, isCalling>>

RegFetchFailed(x) ==
    /\ x \in invs /\ x.kind = "regFetch"
    /\ fin' = [x EXCEPT !.outcome = 0]
    /\ Render(FALSE, isUpdatingModel, lists, invs \ {x},
              <<"panel.update.catch", "console.error", "setIsCallingApi(false)">>,
              page, FALSE)
    /\ UNCHANGED <<aside, errorMsg, registrationData, customDeleted, modelData, isCalling>>

\* LaunchModel.update: the list GET, then one detail GET per registration, all
\* issued at once, their answers awaited with Promise.all.
DetailGet(i) == "DETAIL_GET_" \o ToString(i)
DetailGets(regs) == {DetailGet(i) : i \in 1..Len(regs)}

\* { ...(await desc.json()), is_builtin: registration.is_builtin }
Detail(r) == [model_name |-> r.model_name, model_description |-> "text",
              is_builtin |-> r.is_builtin]
Details(regs) == [i \in 1..Len(regs) |-> Detail(regs[i])]

\* The list GET is answered with regs.  Promise.all of no promise resolves at
\* once; otherwise the detail GETs are issued.
RegListDone(x, regs) ==
    /\ x \in invs /\ x.kind = "regDetails" /\ "REG_GET" \in x.pending
    /\ IF regs = <<>>
       THEN /\ fin' = [x EXCEPT !.outcome = 204]
            /\ registrationData' = IF x.live THEN <<>> ELSE registrationData
            /\ Render(FALSE, isUpdatingModel, lists, invs \ {x},
                      <<"LaunchModel.update.try", "setRegistrationData",
                        "setIsCallingApi(false)">>, page, FALSE)
       ELSE /\ fin' = NoInv
            /\ registrationData' = registrationData
            /\ Render(isCallingApi, isUpdatingModel, lists,
                      (invs \ {x}) \cup
                          {[x EXCEPT !.pending = DetailGets(regs), !.probe = 204,
                                     !.calls = @ \o <<"DETAIL_GET">>, !.data = regs]},
                      <<"LaunchModel.update.try", "DETAIL_GET">>, page, FALSE)
    /\ UNCHANGED <<aside, errorMsg, customDeleted, modelData, isCalling>>

\* The list GET rejects, or its body is not JSON: catch, then finally.
RegListFailed(x) ==
    /\ x \in invs /\ x.kind = "regDetails" /\ "REG_GET" \in x.pending
    /\ fin' = [x EXCEPT !.outcome = 0]
    /\ Render(FALSE, isUpdatingModel, lists, invs \ {x},
              <<"LaunchModel.update.catch", "console.error", "setIsCallingApi(false)">>,
              page, FALSE)
    /\ UNCHANGED <<aside, errorMsg, registrationData, customDeleted, modelData, isCalling>>

\* The detail GET rq of x is answered; ok: the fetch resolved and its body is
\* JSON.  Promise.all resolves with the last answer when none was rejected, and
\* rejects with the first rejection, whatever is still outstanding; the answers
\* that come after a rejection are dropped.
DetailDone(x, rq, ok) ==
    /\ x \in invs /\ x.kind \in {"regDetails", "regDetailsRejected"}
    /\ rq \in x.pending /\ rq # "REG_GET"
    /\ LET rest == x.pending \ {rq}
           y == [x EXCEPT !.pending = rest]
           left == IF rest = {} THEN invs \ {x} ELSE (invs \ {x}) \cup {y}
       IN IF x.kind = "regDetailsRejected"
          THEN /\ fin' = IF rest = {} THEN y ELSE NoInv
               /\ registrationData' = registrationData
               /\ Render(isCallingApi, isUpdatingModel, lists, left, <<>>, page, FALSE)
          ELSE IF ~ok
          THEN /\ fin' = IF rest = {} THEN [y EXCEPT !.outcome = 0] ELSE NoInv
               /\ registrationData' = registrationData
               /\ Render(FALSE, isUpdatingModel, lists,
                         IF rest = {} THEN invs \ {x}
                         ELSE (invs \ {x}) \cup {[y EXCEPT !.kind = "regDetailsRejected"]},
                         <<"LaunchModel.update.catch", "console.error",
                           "setIsCallingApi(false)">>, page, FALSE)
          ELSE IF rest = {}
          THEN /\ fin' = [y EXCEPT !.outcome = 204]
               /\ registrationData' = IF x.live THEN Details(x.data) ELSE registrationData
               /\ Render(FALSE, isUpdatingModel, lists, invs \ {x},
                         <<"LaunchModel.update.try", "setRegistrationData",
                           "setIsCallingApi(false)">>, page, FALSE)
          ELSE /\ fin' = NoInv
               /\ registrationData' = registrationData
               /\ Render(isCallingApi, isUpdatingModel, lists, left, <<>>, page, FALSE)
    /\ UNCHANGED <<aside, errorMsg, customDeleted, modelData, isCalling>>

\* What event.target.value of the search box can be: a string.
Typed == {Text(t) : t \in {"", "aB"}}

\* handleChange: setSearchTerm(event.target.value)
handleChange(value) ==
    /\ page \in Panels
    /\ value \in Typed /\ value # searchTerm
    /\ searchTerm' = value
    /\ fin' = NoInv
    /\ Render(isCallingApi, isUpdatingModel, lists, invs, <<"handleChange">>, page, FALSE)
    /\ UNCHANGED <<others, modelAbility, selected, errorMsg, registrationData, customDeleted,
                   modelData, isCalling>>

\* handleAbilityChange: setModelAbility(event.target.value), a MenuItem's value
handleAbilityChange(value) ==
    /\ page \in Panels
    /\ value \in {"all", "generate", "chat"} /\ value # modelAbility
    /\ modelAbility' = value
    /\ fin' = NoInv
    /\ Render(isCallingApi, isUpdatingModel, lists, invs, <<"handleAbilityChange">>, page, FALSE)
    /\ UNCHANGED <<others, searchTerm, selected, errorMsg, registrationData, customDeleted,
                   modelData, isCalling>>

----------------------------------------------------------------------------
(* AudioCard *)

\* if (isCallingApi || isUpdatingModel) return, in AudioCard.launchModel
AudioLaunchGate == ~(isCallingApi \/ isUpdatingModel)

\* launchModel of AudioCard, whoever calls it.
AudioCard_launchModel ==
    /\ page = "launch"
    /\ fin' = NoInv
    /\ IF AudioLaunchGate
       THEN /\ FreeIds(invs) # {}
            /\ Render(TRUE, isUpdatingModel, lists,
                      invs \cup {NewInv(FreeId(invs), "launchAudio", "CREATE_POST", "")},
                      <<"AudioCard.launchModel", "setIsCallingApi(true)", "CREATE_POST">>,
                      page, FALSE)
       ELSE Render(isCallingApi, isUpdatingModel, lists, invs,
                   <<"AudioCard.launchModel">>, page, FALSE)
    /\ UNCHANGED <<aside, errorMsg, registrationData, customDeleted, modelData, isCalling>>

\* disabled={isCallingApi || isUpdatingModel || !modelData}
AudioButtonDisabled == isCallingApi \/ isUpdatingModel

AudioLaunchClick == ~AudioButtonDisabled /\ AudioCard_launchModel

\* What the handlers of the create POST do with outcome o: "catch" (rejected),
\* "error" (!response.ok: read the body, then setErrorMsg), "navigate".
AudioBranch(o) ==
    IF IsRejected(o) THEN "catch" ELSE IF IsOk(o) THEN "navigate" ELSE "error"

AudioCreateDone(x, o) ==
    /\ x \in invs /\ x.kind = "launchAudio" /\ "CREATE_POST" \in x.pending
    /\ LET b == AudioBranch(o)
       IN IF b = "navigate"
          THEN /\ fin' = [x EXCEPT !.probe = o, !.outcome = o, !.opened = TRUE]
               /\ IF page = "running_models"
                  THEN /\ Render(FALSE, isUpdatingModel, lists, invs \ {x},
                                 <<"launchAudio.then", "navigate", "setIsCallingApi(false)">>,
                                 page, FALSE)
                       /\ UNCHANGED <<inputs, registrationData, customDeleted, modelData, isCalling>>
                  ELSE Mount("running_models", FALSE, invs \ {x},
                             <<"launchAudio.then", "navigate", "setIsCallingApi(false)">>)
          ELSE IF b = "error"
          THEN /\ fin' = NoInv
               /\ Render(FALSE, isUpdatingModel, lists,
                         (invs \ {x}) \cup {[x EXCEPT !.pending = {"ERR_BODY"}, !.outcome = o]},
                         <<"launchAudio.then", "response.json", "setIsCallingApi(false)">>,
                         page, FALSE)
               /\ UNCHANGED <<inputs, registrationData, customDeleted, modelData, isCalling>>
          ELSE /\ fin' = [x EXCEPT !.outcome = o]
               /\ Render(FALSE, isUpdatingModel, lists, invs \ {x},
                         <<"launchAudio.catch", "console.error", "setIsCallingApi(false)">>,
                         page, FALSE)
               /\ UNCHANGED <<inputs, registrationData, customDeleted, modelData, isCalling>>
    /\ UNCHANGED <<others, errorMsg>>

\* response.json().then((errorData) => setErrorMsg(...)): no rejection handler.
AudioErrBodyDone(x, json) ==
    /\ x \in invs /\ x.kind = "launchAudio" /\ "ERR_BODY" \in x.pending
    /\ fin' = x
    /\ errorMsg' = IF json THEN "Server error" ELSE errorMsg
    /\ Render(isCallingApi, isUpdatingModel, lists, invs \ {x},
              IF json THEN <<"launchAudio.body.then", "setErrorMsg">>
                      ELSE <<"unhandledrejection">>, page, FALSE)
    /\ UNCHANGED <<aside, registrationData, customDeleted, modelData, isCalling>>

\* handeCustomDelete: the IconButton is disabled={customDeleted}; no flag is read.
CustomDeleteClick ==
    /\ page = "launch" /\ ~customDeleted
    /\ FreeIds(invs) # {}
    /\ fin' = NoInv
    /\ Render(isCallingApi, isUpdatingModel, lists,
              invs \cup {NewInv(FreeId(invs), "customDelete", "REG_DELETE", "")},
              <<"handeCustomDelete", "REG_DELETE">>, page, FALSE)
    /\ UNCHANGED <<aside, errorMsg, registrationData, customDeleted, modelData, isCalling>>

\* .then(() => setCustomDeleted(true)).catch(console.error)
CustomDeleteDone(x, o) ==
    /\ x \in invs /\ x.kind = "customDelete"
    /\ fin' = [x EXCEPT !.outcome = o]
    /\ customDeleted' = IF ~IsRejected(o) /\ x.live THEN TRUE ELSE customDeleted
    /\ Render(isCallingApi, isUpdatingModel, lists, invs \ {x},
              IF IsRejected(o) THEN <<"customDelete.catch", "console.error">>
                               ELSE <<"customDelete.then", "setCustomDeleted(true)">>,
              page, FALSE)
    /\ UNCHANGED <<aside, errorMsg, registrationData, modelData, isCalling>>

\* CardClick without the test of customDeleted.
CardClick_NoDeletedTest ==
    /\ page = "launch" /\ ~selected
    /\ selected' = TRUE
    /\ fin' = NoInv
    /\ Render(isCallingApi, isUpdatingModel, lists, invs, <<"card.onClick", "setSelected(true)">>,
              page, FALSE)
    /\ UNCHANGED <<others, searchTerm, modelAbility, errorMsg, registrationData, customDeleted,
                   modelData, isCalling>>

\* The card's onClick: if (!selected && !customDeleted) setSelected(true)
CardClick ==
    /\ page = "launch" /\ ~selected /\ ~customDeleted
    /\ selected' = TRUE
    /\ fin' = NoInv
    /\ Render(isCallingApi, isUpdatingModel, lists, invs, <<"card.onClick", "setSelected(true)">>,
              page, FALSE)
    /\ UNCHANGED <<others, searchTerm, modelAbility, errorMsg, registrationData, customDeleted,
                   modelData, isCalling>>

\* The back button of the selected card: onClick={() => setSelected(false)}
CardBack ==
    /\ page = "launch" /\ selected
    /\ selected' = FALSE
    /\ fin' = NoInv
    /\ Render(isCallingApi, isUpdatingModel, lists, invs, <<"back.onClick", "setSelected(false)">>,
              page, FALSE)
    /\ UNCHANGED <<others, searchTerm, modelAbility, errorMsg, registrationData, customDeleted,
                   modelData, isCalling>>

----------------------------------------------------------------------------
(* ModelCard *)

\* uuidv1(): a time-based identifier, never one generated before.  Identifiers
\* are only compared for equality, and once the new invocation has started the
\* state holds those of the invocations in progress only: the least number none
\* of them holds stands for the new one.
uuidv1 ==
    LET held == {x.uuid : x \in invs}
    IN CHOOSE u \in 1..(MaxActive + 1) : u \notin held /\ \A v \in 1..(u - 1) : v \in held

\* isCallingApi | isUpdatingModel: JavaScript's bitwise OR of two booleans.
ToInt32(b) == IF b THEN 1 ELSE 0
BitOr(a, b) == IF ToInt32(a) + ToInt32(b) > 0 THEN 1 ELSE 0
\* ModelCardDisabled with & in place of |.
ModelCardDisabled_And == ToInt32(isCallingApi) * ToInt32(isUpdatingModel) # 0
\* disabled={isCallingApi | isUpdatingModel}
ModelCardDisabled == BitOr(isCallingApi, isUpdatingModel) # 0

\* ModelCard_launchModel with the fetch before setIsCallingApi(true).
ModelCard_launchModel_FetchFirst ==
    /\ page = "launch" /\ Len(registrationData) > 0
    /\ FreeIds(invs) # {}
    /\ fin' = NoInv
    /\ Render(TRUE, isUpdatingModel, lists,
              invs \cup {[NewInv(FreeId(invs), "launchCard", "CREATE_POST", "")
                             EXCEPT !.uuid = uuidv1, !.uses = <<uuidv1>>]},
              <<"ModelCard.launchModel", "CREATE_POST", "setIsCallingApi(true)">>,
              page, FALSE)
    /\ UNCHANGED <<aside, errorMsg, registrationData, customDeleted, modelData, isCalling>>

\* launchModel of ModelCard, whoever calls it: it reads no flag.
ModelCard_launchModel ==
    /\ page = "launch" /\ Len(registrationData) > 0
    /\ FreeIds(invs) # {}
    /\ fin' = NoInv
    /\ Render(TRUE, isUpdatingModel, lists,
              invs \cup {[NewInv(FreeId(invs), "launchCard", "CREATE_POST", "")
                             EXCEPT !.uuid = uuidv1, !.uses = <<uuidv1>>]},
              <<"ModelCard.launchModel", "setIsCallingApi(true)", "CREATE_POST">>,
              page, FALSE)
    /\ UNCHANGED <<aside, errorMsg, registrationData, customDeleted, modelData, isCalling>>

ModelCardLaunchClick == ~ModelCardDisabled /\ ModelCard_launchModel

\* CardCreateDone with uuidv1() called again for the path of the gradio POST.
CardCreateDone_FreshPathId(x, o) ==
    /\ x \in invs /\ x.kind = "launchCard" /\ "CREATE_POST" \in x.pending
    /\ IF IsRejected(o)
       THEN /\ fin' = [x EXCEPT !.outcome = o]
            /\ Render(FALSE, isUpdatingModel, lists, invs \ {x},
                      <<"launchCard.catch", "console.error", "setIsCallingApi(false)">>,
                      page, FALSE)
       ELSE /\ fin' = NoInv
            /\ Render(isCallingApi, isUpdatingModel, lists,
                      (invs \ {x}) \cup {Then([x EXCEPT !.probe = o,
                                                        !.uses = @ \o <<uuidv1>>],
                                              "GRADIO_POST")},
                      <<"launchCard.then", "GRADIO_POST">>, page, FALSE)
    /\ UNCHANGED <<aside, errorMsg, registrationData, customDeleted, modelData, isCalling>>

\* The create POST settles.  response.json() is called and dropped; the status
\* is not read.
CardCreateDone(x, o) ==
    /\ x \in invs /\ x.kind = "launchCard" /\ "CREATE_POST" \in x.pending
    /\ IF IsRejected(o)
       THEN /\ fin' = [x EXCEPT !.outcome = o]
            /\ Render(FALSE, isUpdatingModel, lists, invs \ {x},
                      <<"launchCard.catch", "console.error", "setIsCallingApi(false)">>,
                      page, FALSE)
       ELSE /\ fin' = NoInv
            /\ Render(isCallingApi, isUpdatingModel, lists,
                      (invs \ {x}) \cup {Then([x EXCEPT !.probe = o, !.uses = @ \o <<x.uuid>>],
                                              "GRADIO_POST")},
                      <<"launchCard.then", "GRADIO_POST">>, page, FALSE)
    /\ UNCHANGED <<aside, errorMsg, registrationData, customDeleted, modelData, isCalling>>

\* CardGradioDone with a catch that deletes the instance the first step created.
CardGradioDone_Rollback(x, o) ==
    /\ x \in invs /\ x.kind = "launchCard" /\ "GRADIO_POST" \in x.pending
    /\ IF IsRejected(o)
       THEN /\ fin' = [Then(x, "DELETE") EXCEPT !.outcome = o]
            /\ Render(FALSE, isUpdatingModel, lists, invs \ {x},
                      <<"launchCard.catch", "console.error", "DELETE",
                        "setIsCallingApi(false)">>, page, FALSE)
       ELSE /\ fin' = [x EXCEPT !.outcome = o, !.opened = TRUE, !.uses = @ \o <<x.uuid>>]
            /\ Render(FALSE, isUpdatingModel, lists, invs \ {x},
                      <<"launchCard.then", "window.open", "setIsCallingApi(false)">>,
                      page, FALSE)
    /\ UNCHANGED <<aside, errorMsg, registrationData, customDeleted, modelData, isCalling>>

CardGradioDone(x, o) ==
    /\ x \in invs /\ x.kind = "launchCard" /\ "GRADIO_POST" \in x.pending
    /\ IF IsRejected(o)
       THEN /\ fin' = [x EXCEPT !.outcome = o]
            /\ Render(FALSE, isUpdatingModel, lists, invs \ {x},
                      <<"launchCard.catch", "console.error", "setIsCallingApi(false)">>,
                      page, FALSE)
       ELSE /\ fin' = [x EXCEPT !.outcome = o, !.opened = TRUE, !.uses = @ \o <<x.uuid>>]
            /\ Render(FALSE, isUpdatingModel, lists, invs \ {x},
                      <<"launchCard.then", "window.open", "setIsCallingApi(false)">>,
                      page, FALSE)
    /\ UNCHANGED <<aside, errorMsg, registrationData, customDeleted, modelData, isCalling>>

----------------------------------------------------------------------------
(* ModelDashboard *)

\* if (isCalling) return
DashGate == ~isCalling

DashDeleteClick(r) ==
    /\ page = "model_dashboard" /\ r \in RowsOf(modelData)
    /\ DashGate
    /\ FreeIds(invs) # {}
    /\ fin' = NoInv
    /\ isCalling' = TRUE
    /\ Render(isCallingApi, isUpdatingModel, lists,
              invs \cup {NewInv(FreeId(invs), "dashDelete", "DASH_DELETE", r.url)},
              <<"dashDelete", "setIsCalling(true)", "DASH_DELETE">>, page, FALSE)
    /\ UNCHANGED <<aside, errorMsg, registrationData, customDeleted, modelData>>

\* Both the second .then and the .catch: setIsCalling(false); update().  The
\* update called is the one of the instance that started the DELETE.
DashDeleteDone(x, o) ==
    /\ x \in invs /\ x.kind = "dashDelete"
    /\ fin' = [x EXCEPT !.outcome = o]
    /\ isCalling' = IF x.live THEN FALSE ELSE isCalling
    /\ Render(isCallingApi, isUpdatingModel, lists,
              (invs \ {x}) \cup {[NewInv(x.id, "dashRefresh", "DASH_GET", "")
                                     EXCEPT !.live = x.live]},
              <<IF IsRejected(o) THEN "dashDelete.catch" ELSE "dashDelete.then",
                "setIsCalling(false)", "ModelDashboard.update", "DASH_GET">>, page, FALSE)
    /\ UNCHANGED <<aside, errorMsg, registrationData, customDeleted, modelData>>

DashRefreshDone(x, data) ==
    /\ x \in invs /\ x.kind = "dashRefresh"
    /\ fin' = [x EXCEPT !.outcome = 204]
    /\ modelData' = IF x.live THEN Rows(data) ELSE modelData
    /\ Render(isCallingApi, isUpdatingModel, lists, invs \ {x},
              <<"ModelDashboard.update.then", "setModelData">>, page, FALSE)
    /\ UNCHANGED <<aside, errorMsg, registrationData, customDeleted, isCalling>>

DashRefreshFailed(x) ==
    /\ x \in invs /\ x.kind = "dashRefresh"
    /\ fin' = [x EXCEPT !.outcome = 0]
    /\ Render(isCallingApi, isUpdatingModel, lists, invs \ {x},
              <<"ModelDashboard.update.catch", "console.error">>, page, FALSE)
    /\ UNCHANGED <<aside, errorMsg, registrationData, customDeleted, modelData, isCalling>>

----------------------------------------------------------------------------
(* fetcher: the HTTP client wrapper *)

\* What cookies.get('token') answers: undefined when there is no such cookie.
Tokens == {Undefined, Text("no_auth"), Text("abc"), Text(""), Text("undefined")}

Methods == {"GET", "POST", "DELETE", "HEAD"}
HeaderMaps ==
    { <<>>,
      "Content-Type" :> "application/json",
      "Authorization" :> "Basic xyz",
      ("Content-Type" :> "application/json") @@ ("Authorization" :> "Basic xyz") }

\* The options a caller hands to fetcher: undefined, or an object with a method
\* and with or without headers.
CallerOptions ==
    {NoOptions} \cup
    {[given |-> TRUE, method |-> m, hasHeaders |-> FALSE, headers |-> <<>>] : m \in Methods} \cup
    {[given |-> TRUE, method |-> m, hasHeaders |-> TRUE, headers |-> h] :
         m \in Methods, h \in HeaderMaps}

\* String(v), as in 'Bearer ' + v
StringOf(v) == IF v.type = "undefined" THEN "undefined" ELSE v.chars

\* { ...headers, Authorization: 'Bearer ' + cookies.get('token') }
WithAuthorization(headers) ==
    [n \in DOMAIN headers \cup {"Authorization"} |->
        IF n = "Authorization" THEN "Bearer " \o StringOf(token) ELSE headers[n]]

\* const update = { ...options }; if (cookies.get('token') !== 'no_auth') ...
updateOptions(url, opts) ==
    LET update == [opts EXCEPT !.given = TRUE]
    IN IF token # Text("no_auth")
       THEN [update EXCEPT !.hasHeaders = TRUE, !.headers = WithAuthorization(update.headers)]
       ELSE update

Urls == {"/v1/models", "/v1/model_registrations/image?detailed=true"}

\* fetcher(url, options): fetch(url, updateOptions(url, options))
fetcher(url, opts) ==
    /\ options' = opts
    /\ sent' = updateOptions(url, opts)
    /\ UNCHANGED <<token, searchTerm, modelAbility, registration, shown, selected>>
    /\ UNCHANGED <<isCallingApi, isUpdatingModel, errorMsg, page, lists, registrationData,
                   customDeleted, modelData, isCalling, invs, hlog, fin>>

----------------------------------------------------------------------------
(* The filters of the launch panels *)

\* String.prototype.toLowerCase over the letters the model uses.
LowerChar(c) == IF c = "A" THEN "a" ELSE IF c = "B" THEN "b" ELSE c
\* toLowerCase left out: the strings are compared as they are.
toLowerCase_Identity(str) == str

RECURSIVE toLowerCase(_)
toLowerCase(str) ==
    IF str = "" THEN ""
    ELSE LowerChar(SubSeq(str, 1, 1)) \o toLowerCase(SubSeq(str, 2, Len(str)))

\* includes with a test that an empty term matches nothing.
includes_NonEmpty(str, term) ==
    /\ term # ""
    /\ \E i \in 0..(Len(str) - Len(term)) : SubSeq(str, i + 1, i + Len(term)) = term

\* String.prototype.includes
includes(str, term) ==
    \E i \in 0..(Len(str) - Len(term)) : SubSeq(str, i + 1, i + Len(term)) = term

\* A field value in a condition: undefined and '' are falsy.
Truthy(v) == v.type # "undefined" /\ ~(v.type = "string" /\ v.chars = "")

\* registration.model_name ? registration.model_name.toLowerCase() : ''
LowerOrEmpty(v) == IF Truthy(v) THEN toLowerCase(v.chars) ELSE ""

\* A filter answers "true" or "false", or raises a TypeError.
\* LaunchImage.filter, LaunchEmbedding.filter: the name only.
LaunchImage_filter(reg, term) ==
    IF ~reg.given \/ term.type # "string" THEN "false"
    ELSE IF includes(LowerOrEmpty(reg.model_name), toLowerCase(term.chars))
    THEN "true" ELSE "false"

\* LaunchModel_filter without the ability test.
LaunchModel_filter_TextOnly(reg, term, ability) ==
    IF ~reg.given \/ term.type # "string" THEN "false"
    ELSE IF /\ ~includes(LowerOrEmpty(reg.model_name), toLowerCase(term.chars))
            /\ ~includes(LowerOrEmpty(reg.model_description), toLowerCase(term.chars))
    THEN "false"
    ELSE "true"

\* LaunchModel.filter, LaunchLLM.filter: name, description and ability.
\* registration.model_ability.indexOf raises when the record has no model_ability.
LaunchModel_filter(reg, term, ability) ==
    IF ~reg.given \/ term.type # "string" THEN "false"
    ELSE IF /\ ~includes(LowerOrEmpty(reg.model_name), toLowerCase(term.chars))
            /\ ~includes(LowerOrEmpty(reg.model_description), toLowerCase(term.chars))
    THEN "false"
    ELSE IF ability # "" /\ ability # "all"
    THEN IF ~reg.hasAbility THEN "TypeError"
         ELSE IF ability \notin reg.model_ability THEN "false" ELSE "true"
    ELSE "true"

\* The earlier LaunchModel.filter: no test of its arguments; the description is
\* read only when the name does not match.
LaunchModelEarlier_filter(reg, term) ==
    IF ~reg.given \/ reg.model_name.type # "string" \/ term.type # "string" THEN "TypeError"
    ELSE IF includes(toLowerCase(reg.model_name.chars), toLowerCase(term.chars)) THEN "true"
    ELSE IF reg.model_description.type # "string" THEN "TypeError"
    ELSE IF includes(toLowerCase(reg.model_description.chars), toLowerCase(term.chars))
    THEN "true" ELSE "false"

\* The values of the search box, and values that are no text.
Terms == {Text(t) : t \in {"", "a", "B", "aB", "ab"}} \cup {Undefined, Number}
\* The values of the MenuItems of the ability selector.
Abilities == {"all", "generate", "chat"}
\* What a field of a registration can hold: a text, or nothing.
FieldValues == {Text(t) : t \in {"", "a", "Ab", "b"}} \cup {Undefined}
\* The elements handed to filter: undefined, or a record with or without
\* model_name, model_description, model_ability.
Registrations ==
    {NoRegistration} \cup
    {[given |-> TRUE, model_name |-> n, model_description |-> d,
      hasAbility |-> FALSE, model_ability |-> {}] : n \in FieldValues, d \in FieldValues} \cup
    {[given |-> TRUE, model_name |-> n, model_description |-> d,
      hasAbility |-> TRUE, model_ability |-> a] :
         n \in FieldValues, d \in FieldValues, a \in SUBSET {"generate", "chat"}}

\* registrationData.filter((registration) => filter(registration)) in the render
\* of a panel: the filter of that panel applied to the element.
FilterUnchanged ==
    /\ UNCHANGED <<token, options, sent, searchTerm, modelAbility, registration, selected>>
    /\ UNCHANGED <<isCallingApi, isUpdatingModel, errorMsg, page, lists, registrationData,
                   customDeleted, modelData, isCalling, invs, hlog, fin>>

LaunchImageRender ==
    /\ shown' = [by |-> "LaunchImage", result |-> LaunchImage_filter(registration, searchTerm)]
    /\ FilterUnchanged

LaunchModelRender ==
    /\ shown' = [by |-> "LaunchModel",
                 result |-> LaunchModel_filter(registration, searchTerm, modelAbility)]
    /\ FilterUnchanged

LaunchModelEarlierRender ==
    /\ shown' = [by |-> "LaunchModelEarlier",
                 result |-> LaunchModelEarlier_filter(registration, searchTerm)]
    /\ FilterUnchanged

----------------------------------------------------------------------------
\* The application as loaded: no scene mounted, nothing in progress.
Idle ==
    /\ isCallingApi = FALSE
    /\ isUpdatingModel = FALSE
    /\ errorMsg = ""
    /\ page = "none"
    /\ lists = EmptyLists
    /\ registrationData = <<>>
    /\ customDeleted = FALSE
    /\ modelData = <<>>
    /\ isCalling = FALSE
    /\ invs = {}
    /\ hlog = <<>>
    /\ fin = NoInv

\* The wrapper in a browser that holds any cookie, or none.
InitFetcher ==
    /\ Idle
    /\ token \in Tokens
    /\ options = NoOptions
    /\ sent = NoOptions
    /\ searchTerm = Text("")
    /\ modelAbility = "all"
    /\ registration = NoRegistration
    /\ shown = NotShown
    /\ selected = FALSE

NextFetcher == \E url \in Urls, opts \in CallerOptions : fetcher(url, opts)

SpecFetcher == InitFetcher /\ [][NextFetcher]_vars

\* A panel with any search term, any selector value and any element to filter.
InitFilter ==
    /\ Idle
    /\ token = Undefined
    /\ options = NoOptions
    /\ sent = NoOptions
    /\ searchTerm \in Terms
    /\ modelAbility \in Abilities
    /\ registration \in Registrations
    /\ shown = NotShown
    /\ selected = FALSE

NextFilter == LaunchImageRender \/ LaunchModelRender \/ LaunchModelEarlierRender

SpecFilter == InitFilter /\ [][NextFilter]_vars

\* The application in a browser without a token cookie, the search box of the
\* panels empty and their selector on 'all'.
Init ==
    /\ Idle
    /\ token = Undefined
    /\ options = NoOptions
    /\ sent = NoOptions
    /\ searchTerm = Text("")
    /\ modelAbility = "all"
    /\ registration = NoRegistration
    /\ shown = NotShown
    /\ selected = FALSE

Next ==
    \/ \E pg \in Pages : Navigate(pg)
    \/ \E r \in AllButtons : TerminateClick(r)
    \/ \E r \in AllButtons : OpenUiClick(r)
    \/ AudioLaunchClick
    \/ CustomDeleteClick
    \/ ModelCardLaunchClick
    \/ \E r \in RowsOf(modelData) : DashDeleteClick(r)
    \/ \E x \in invs, data \in ServerMaps : RefreshDone(x, data)
    \/ \E x \in invs : RefreshFailed(x)
    \/ \E x \in invs, o \in Outcomes : TerminateDone(x, o)
    \/ \E x \in invs, o \in Outcomes : HeadDone(x, o)
    \/ \E x \in invs, o \in Outcomes, json \in BOOLEAN : UiPostDone(x, o, json)
    \/ \E x \in invs, regs \in RegResponses : RegFetchDone(x, regs)
    \/ \E x \in invs : RegFetchFailed(x)
    \/ \E x \in invs, o \in Outcomes : AudioCreateDone(x, o)
    \/ \E x \in invs, json \in BOOLEAN : AudioErrBodyDone(x, json)
    \/ \E x \in invs, o \in Outcomes : CustomDeleteDone(x, o)
    \/ \E x \in invs, o \in Outcomes : CardCreateDone(x, o)
    \/ \E x \in invs, o \in Outcomes : CardGradioDone(x, o)
    \/ \E x \in invs, o \in Outcomes : DashDeleteDone(x, o)
    \/ \E x \in invs, data \in ServerMaps : DashRefreshDone(x, data)
    \/ \E x \in invs : DashRefreshFailed(x)

Spec == Init /\ [][Next]_vars

\* The handlers as a caller other than the buttons can invoke them: the two
\* launchModel functions are also called directly, in whatever state.
NextFn == Next \/ AudioCard_launchModel \/ ModelCard_launchModel

SpecFn == Init /\ [][NextFn]_vars

\* The launch panel on its own, with launchModel of its ModelCards called by the
\* button or directly: the two-step launches, as many at once as MaxActive allows.
NextCard ==
    \/ Navigate("launch")
    \/ \E x \in invs, regs \in RegResponses : RegFetchDone(x, regs)
    \/ \E x \in invs : RegFetchFailed(x)
    \/ ModelCard_launchModel
    \/ \E x \in invs, o \in Outcomes : CardCreateDone(x, o)
    \/ \E x \in invs, o \in Outcomes : CardGradioDone(x, o)

SpecCard == Init /\ [][NextCard]_vars

\* A launch panel used through its search box and selector, left for
\* RunningModels and mounted again, its fetches answered at any time (the
\* server runs no instance: the list of RunningModels is answered empty).
NextPanel ==
    \/ \E pg \in Routed \cup Panels : Navigate(pg)
    \/ \E value \in Typed : handleChange(value)
    \/ \E value \in Abilities : handleAbilityChange(value)
    \/ \E x \in invs, regs \in PanelResponses : RegFetchDone(x, regs)
    \/ \E x \in invs : RegFetchFailed(x)
    \/ \E x \in invs, regs \in PanelResponses : RegListDone(x, regs)
    \/ \E x \in invs : RegListFailed(x)
    \/ \E x \in invs : \E rq \in DetailGets(x.data), ok \in BOOLEAN : DetailDone(x, rq, ok)
    \/ \E x \in invs : RefreshDone(x, <<>>)
    \/ \E x \in invs : RefreshFailed(x)

SpecPanel == Init /\ [][NextPanel]_vars

\* A card of a custom registration: selected, deselected and deleted, its panel
\* left for RunningModels and mounted again.
NextDelete ==
    \/ \E pg \in Routed : Navigate(pg)
    \/ CardClick
    \/ CardBack
    \/ CustomDeleteClick
    \/ \E x \in invs, o \in Outcomes : CustomDeleteDone(x, o)
    \/ \E x \in invs, regs \in RegResponses : RegFetchDone(x, regs)
    \/ \E x \in invs : RegFetchFailed(x)
    \/ \E x \in invs, data \in ServerMaps : RefreshDone(x, data)
    \/ \E x \in invs : RefreshFailed(x)

SpecDelete == Init /\ [][NextDelete]_vars

\* The settlement of a pending promise of the invocation with identifier i.
Settle(i) ==
    \E x \in invs :
        /\ x.id = i
        /\ \/ \E data \in ServerMaps : RefreshDone(x, data)
           \/ RefreshFailed(x)
           \/ \E o \in Outcomes : TerminateDone(x, o)
           \/ \E o \in Outcomes : HeadDone(x, o)
           \/ \E o \in Outcomes, json \in BOOLEAN : UiPostDone(x, o, json)
           \/ \E regs \in RegResponses : RegFetchDone(x, regs)
           \/ RegFetchFailed(x)
           \/ \E o \in Outcomes : AudioCreateDone(x, o)
           \/ \E json \in BOOLEAN : AudioErrBodyDone(x, json)
           \/ \E o \in Outcomes : CustomDeleteDone(x, o)
           \/ \E o \in Outcomes : CardCreateDone(x, o)
           \/ \E o \in Outcomes : CardGradioDone(x, o)
           \/ \E o \in Outcomes : DashDeleteDone(x, o)
           \/ \E data \in ServerMaps : DashRefreshDone(x, data)
           \/ DashRefreshFailed(x)

\* Every issued network call eventually resolves or rejects.
FairSpec == Spec /\ \A i \in 1..MaxActive : WF_vars(Settle(i))

----------------------------------------------------------------------------
(* Properties *)

Count(log, e) == Cardinality({i \in 1..Len(log) : log[i] = e})
Has(log, e) == Count(log, e) > 0
\* Every e in log comes after some d.
After(log, d, e) ==
    \A i \in 1..Len(log) : log[i] = e => \E j \in 1..(i - 1) : log[j] = d

\* The kinds of invocation that start with a mutating request.
MutatingKinds == {"terminate", "openUi", "launchAudio", "launchCard", "customDelete",
                  "dashDelete"}
\* The requests that change the server, issued by handlers that test the flags.
MutatingRequests == {"CREATE_POST", "DELETE", "UI_POST", "GRADIO_POST"}
LaunchKinds == {"launchAudio", "launchCard"}

\* The invocations started by the step.
Started == {y \in invs' : Len(y.calls) = 1 /\ y.pending = {y.calls[1]} /\ y \notin invs}

\* C1: no mutating user action (terminate, open-or-create UI, launch, delete of
\* a custom registration) starts while isCallingApi or isUpdatingModel is true.
C1_NoStartWhileFlag ==
    [][(\E y \in Started : y.kind \in MutatingKinds)
          => ~(isCallingApi \/ isUpdatingModel)]_vars

\* C2: a launchModel function called while isCallingApi or isUpdatingModel is
\* true issues no request and sets or clears no flag.
C2_LaunchIsNoOpWhenFlag ==
    [][(/\ isCallingApi \/ isUpdatingModel
        /\ hlog' # <<>>
        /\ hlog'[1] \in {"AudioCard.launchModel", "ModelCard.launchModel"})
          => /\ invs' = invs
             /\ isCallingApi' = isCallingApi
             /\ isUpdatingModel' = isUpdatingModel
             /\ Len(hlog') = 1]_vars

\* The mutating requests of flag-testing handlers that are outstanding.
OutstandingMutating ==
    {<<x.id, rq>> : x \in {y \in invs : y.kind \in MutatingKinds \ {"customDelete", "dashDelete"}},
                    rq \in MutatingRequests} \cap
    UNION {{<<x.id, rq>> : rq \in x.pending} : x \in invs}

\* C3: at most one mutating request (create POST, terminate DELETE, UI-create
\* POST) of the handlers gated on the shared flags is outstanding at any time.
C3_AtMostOneMutating == Cardinality(OutstandingMutating) <= 1

\* C3 witness: a gated mutating request is outstanding next to an ungated one.
C3_Witness ==
    /\ Cardinality(OutstandingMutating) = 1
    /\ \E x \in invs : x.kind = "customDelete"

\* C4: whenever the shared mutating flag is set it is eventually set back to
\* false, whatever the outcomes of the requests.
C4_FlagEventuallyCleared == isCallingApi ~> ~isCallingApi

\* C4 witness: an invocation ended on an error path and the flag is false again.
C4_Witness ==
    /\ fin.kind \in {"openUi", "terminate", "launchCard", "regFetch"}
    /\ ~IsOk(fin.outcome)
    /\ Has(hlog, "setIsCallingApi(false)")
    /\ ~isCallingApi

\* C5 as first stated: after the DELETE of terminate completes, whatever its
\* outcome, the in-flight flag is false and exactly one list refresh GET is issued.
C5_Original ==
    /\ fin.kind = "terminate" => ~isCallingApi /\ Count(hlog, "LIST_GET") = 1
    /\ fin.kind = "dashDelete" => ~isCalling /\ Count(hlog, "DASH_GET") = 1

\* C5 as amended: after the DELETE completes, whatever its outcome, the in-flight
\* flag is false; RunningModels issues exactly one refresh GET when it is mounted
\* at that moment and none when it is not; ModelDashboard always issues exactly
\* one; the GET follows the clearing of the flag and no refresh is issued by the
\* click; the click of ModelDashboard leaves the row in modelData, and while the
\* DELETE is outstanding RunningModels shows the placeholder in all four lists.
C5_Amended ==
    /\ fin.kind = "terminate" =>
          /\ ~isCallingApi
          /\ Count(hlog, "LIST_GET") = (IF page = "running_models" THEN 1 ELSE 0)
          /\ After(hlog, "setIsCallingApi(false)", "LIST_GET")
    /\ fin.kind = "dashDelete" =>
          /\ ~isCalling
          /\ Count(hlog, "DASH_GET") = 1
          /\ After(hlog, "setIsCalling(false)", "DASH_GET")
    /\ (hlog # <<>> /\ hlog[1] \in {"terminate", "dashDelete"}) =>
          /\ ~Has(hlog, "LIST_GET") /\ ~Has(hlog, "DASH_GET")
          /\ \A x \in invs : x.kind = "dashDelete" =>
                \E r \in RowsOf(modelData) : r.url = x.target
    /\ \A x \in invs :
          (x.kind = "terminate" /\ page = "running_models") => lists = PlaceholderLists

\* C5 witness: a DELETE answered 500 with RunningModels mounted, and its refresh.
C5_Witness ==
    /\ fin.kind = "terminate" /\ fin.outcome = 500
    /\ page = "running_models"
    /\ Has(hlog, "LIST_GET")

\* C6: open-UI flow: a 404 probe is followed by exactly the create POST, and the
\* window is opened only after both are answered; a 2xx probe is the only call
\* and the window is opened without a create POST.
C6_OpenUiCalls ==
    /\ \A x \in invs : x.kind = "openUi" =>
          /\ ~x.opened
          /\ x.calls = (IF x.probe = 404 THEN <<"HEAD", "UI_POST">> ELSE <<"HEAD">>)
          /\ x.pending = {x.calls[Len(x.calls)]}
    /\ fin.kind = "openUi" =>
          /\ fin.opened = Has(hlog, "window.open")
          /\ fin.probe = 404 => fin.calls = <<"HEAD", "UI_POST">>
          /\ IsOk(fin.probe) => /\ fin.calls = <<"HEAD">>
                                /\ fin.opened
                                /\ ~Has(hlog, "UI_POST")

\* C6 witness: a 404 probe, the create POST answered, the window opened.
C6_Witness ==
    /\ fin.kind = "openUi" /\ fin.probe = 404 /\ fin.opened
    /\ fin.calls = <<"HEAD", "UI_POST">>

\* C7: a launch step rejected by a non-2xx status or a transport failure writes
\* an error message to the shared slot, clears the flag and reaches neither a
\* later step nor the success side effect.
C7_LaunchErrorSurfaced ==
    (fin.kind \in LaunchKinds /\ (~IsOk(fin.outcome) \/ ~IsOk(fin.probe))) =>
        /\ errorMsg # ""
        /\ ~fin.opened
        /\ ~IsOk(fin.probe) => Len(fin.calls) = 1
        /\ Has(hlog, "setIsCallingApi(false)") => ~isCallingApi

\* C8: the create POST of a launch is issued right after that launch called
\* setIsCallingApi(true), and the flag is true while the POST is outstanding.
C8_FlagBeforeCreate ==
    /\ \A i \in 1..Len(hlog) : hlog[i] = "CREATE_POST" =>
          i > 1 /\ hlog[i - 1] = "setIsCallingApi(true)"
    /\ \A x \in invs : "CREATE_POST" \in x.pending => isCallingApi

\* C8 witness: a launch has just issued its create POST.
C8_Witness ==
    /\ Has(hlog, "CREATE_POST")
    /\ \E x \in invs : x.kind = "launchCard" /\ "CREATE_POST" \in x.pending

\* C9: an invocation has at most one request outstanding, the one it issued
\* last: a dependent request is issued only after the previous one was answered.
C9_Sequential ==
    \A x \in invs :
        /\ Cardinality(x.pending) <= 1
        /\ x.pending \subseteq {x.calls[Len(x.calls)], "ERR_BODY"}

\* C9 witness: a dependent request is outstanding after the first was answered.
C9_Witness ==
    \E x \in invs : Len(x.calls) = 2 /\ x.pending = {x.calls[2]}

\* C10: open-UI flow: a probe answered by a status that is neither 404 nor 2xx,
\* or rejected, issues no create POST, opens no window and clears the flag.
C10_ProbeError ==
    (fin.kind = "openUi" /\ fin.probe # 404 /\ ~IsOk(fin.probe)) =>
        /\ fin.calls = <<"HEAD">>
        /\ ~fin.opened
        /\ ~Has(hlog, "window.open")
        /\ ~Has(hlog, "UI_POST")
        /\ ~isCallingApi

\* C10 witness: a probe answered 500.
C10_Witness ==
    /\ fin.kind = "openUi" /\ fin.probe = 500
    /\ Has(hlog, "console.error")

\* The four category lists and the model_type each one displays.
ListNames == {"llm", "embedding", "image", "rerank"}
TypeOf(n) == IF n = "llm" THEN "LLM" ELSE n
\* The places (list, index) at which a record with id k is displayed.
PlacesOf(k) ==
    UNION {{<<n, i>> : i \in {j \in 1..Len(lists[n]) : lists[n][j].id = k}} : n \in ListNames}
\* The latest step was the successful refresh of the mounted RunningModels.
Refreshed == fin.kind = "refresh" /\ fin.outcome = 204 /\ fin.live
RowsShown == lists.llm \o lists.embedding \o lists.image \o lists.rerank

\* C11: after a successful refresh every entry of the returned instance map is
\* in exactly one category list, the one of its model_type, and an entry whose
\* model_type is none of LLM, embedding, image, rerank (audio too) is in no list.
C11_Partitioned ==
    Refreshed =>
        \A i \in 1..Len(fin.data) :
            LET e == fin.data[i]
                home == {n \in ListNames : TypeOf(n) = e.value.model_type}
            IN /\ {pl[1] : pl \in PlacesOf(e.key)} = home
               /\ Cardinality(PlacesOf(e.key)) = Cardinality(home)

\* C11 witness: a map with an LLM, an embedding and an audio entry was displayed.
C11_Witness ==
    /\ Refreshed
    /\ \E i \in 1..Len(fin.data) : fin.data[i].value.model_type = "audio"
    /\ Len(lists.llm) = 1 /\ Len(lists.embedding) = 1

\* C12: a successful refresh replaces the four lists wholesale: the records
\* displayed are exactly the entries of recognized type of the returned map, the
\* id and the url of each are its map key whatever id or url the value carries,
\* the ids are pairwise distinct and no placeholder row is left.
C12_Replaced ==
    Refreshed =>
        LET keys == {fin.data[i].key : i \in {j \in 1..Len(fin.data) :
                         fin.data[j].value.model_type \in {TypeOf(n) : n \in ListNames}}}
        IN /\ {RowsShown[i].id : i \in 1..Len(RowsShown)} = keys
           /\ Len(RowsShown) = Cardinality(keys)
           /\ \A i \in 1..Len(RowsShown) :
                 /\ RowsShown[i].url = RowsShown[i].id
                 /\ RowsShown[i].url # "IS_LOADING"
           /\ fin.data = <<>> => lists = EmptyLists

\* C12 witness: a record whose value carried another id is displayed under its key.
C12_Witness ==
    /\ Refreshed
    /\ \E i \in 1..Len(fin.data) :
          /\ fin.data[i].value.id # fin.data[i].key
          /\ PlacesOf(fin.data[i].key) # {}

\* The refreshes of the mounted RunningModels whose GET is outstanding.
LiveRefreshes == {x \in invs : x.kind = "refresh" /\ x.live /\ "LIST_GET" \in x.pending}

\* C13 as first stated: while the GET of a list refresh is outstanding each of
\* the four category lists holds exactly the placeholder record.
C13_Original == LiveRefreshes # {} => lists = PlaceholderLists

\* C13 as amended: while the GET of a list refresh is outstanding the four lists
\* hold no real instance record: all four are empty (the refresh started when
\* the view was mounted) or all four hold exactly the placeholder (the refresh
\* follows a mutating call).  The placeholder is published while a mutating call
\* is in progress, not by the refresh.
C13_Amended ==
    /\ LiveRefreshes # {} => lists \in {EmptyLists, PlaceholderLists}
    /\ (page = "running_models" /\ isCallingApi) => lists = PlaceholderLists
    /\ (hlog # <<>> /\ hlog[Len(hlog)] = "LIST_GET" /\ page = "running_models"
           /\ hlog[1] # "navigate" /\ hlog[2] # "navigate")
          => lists = PlaceholderLists

\* C13 witness: the refresh that follows a terminate is outstanding and the four
\* lists hold the placeholder.
C13_Witness ==
    /\ LiveRefreshes # {}
    /\ fin.kind = "terminate"
    /\ lists = PlaceholderLists

\* C14: a refresh that fails is caught: isUpdatingModel is set to false, nothing
\* is thrown, and the four lists are those displayed when the refresh started:
\* no step changes them while the GET is outstanding, nor does the failure.
C14_RefreshFailureKeepsLists ==
    [][/\ (fin'.kind = "refresh" /\ fin'.outcome = 0) =>
             /\ lists' = lists
             /\ ~isUpdatingModel'
             /\ hlog' = <<"update.catch", "setIsUpdatingModel(false)">>
       /\ (\E x \in LiveRefreshes : x \in invs') => lists' = lists]_vars

\* C14 witness: the refresh that followed a mutating call failed and the stale
\* placeholder rows are still displayed.
C14_Witness ==
    /\ fin.kind = "refresh" /\ fin.outcome = 0 /\ fin.live
    /\ lists = PlaceholderLists
    /\ ~isUpdatingModel

NoRepeat(calls) == \A i, j \in 1..Len(calls) : i # j => calls[i] # calls[j]
\* Every request of the application but the two list GETs.
ChangingRequests == MutatingRequests \cup {"REG_DELETE", "DASH_DELETE"}

\* C15: no retry and no rollback: an invocation issues each of its requests at
\* most once; the step in which an invocation ends on a failure re-issues none
\* of its requests; and a two-step flow whose second step fails after the first
\* was answered issues no DELETE nor any other server-changing request.
C15_NoRetryNoRollback ==
    /\ \A x \in invs \cup {fin} : NoRepeat(x.calls)
    /\ (fin.kind # "none" /\ ~IsOk(fin.outcome)) =>
          \A i \in 1..Len(fin.calls) : ~Has(hlog, fin.calls[i])
    /\ (Len(fin.calls) = 2 /\ ~fin.opened) =>
          \A rq \in ChangingRequests : ~Has(hlog, rq)

\* C15 witness: a launch whose create POST was answered and whose gradio POST
\* was rejected.
C15_Witness ==
    /\ fin.kind = "launchCard"
    /\ fin.calls = <<"CREATE_POST", "GRADIO_POST">>
    /\ IsOk(fin.probe) /\ IsRejected(fin.outcome)

\* The two-step launches in progress or just ended.
CardLaunches == {x \in invs \cup {fin} : x.kind = "launchCard"}

\* C16: a two-step launch generates one identifier and uses that same value as
\* model_uid of the create POST, in the path of the gradio POST and in the URL it
\* opens; two launches never have the same identifier.
C16_OneIdentifier ==
    \A x \in CardLaunches :
        /\ x.uuid > 0
        /\ \A i \in 1..Len(x.uses) : x.uses[i] = x.uuid
        /\ Len(x.uses) = Len(x.calls) + (IF x.opened THEN 1 ELSE 0)
        /\ \A y \in CardLaunches : y.id # x.id => y.uuid # x.uuid

\* C16 witness: a launch opened its page while another launch was in progress.
C16_Witness ==
    /\ fin.kind = "launchCard" /\ fin.opened /\ Len(fin.uses) = 3
    /\ \E y \in invs : y.kind = "launchCard"

\* C17: fetcher adds Authorization: 'Bearer ' + token exactly when there is a
\* token cookie and it is not 'no_auth'; with no cookie, or with 'no_auth', the
\* options handed to fetch have the headers of the caller's options.
C17_BearerIffToken ==
    sent.given =>
        IF token.type = "string" /\ token.chars # "no_auth"
        THEN /\ sent.hasHeaders
             /\ "Authorization" \in DOMAIN sent.headers
             /\ sent.headers["Authorization"] = "Bearer " \o token.chars
             /\ \A n \in DOMAIN options.headers \ {"Authorization"} :
                   sent.headers[n] = options.headers[n]
        ELSE /\ sent.hasHeaders = options.hasHeaders
             /\ sent.headers = options.headers

\* A registration with a text name, a text description and an ability set.
WellFormed(reg) ==
    /\ reg.given /\ reg.hasAbility
    /\ reg.model_name.type = "string" /\ reg.model_description.type = "string"

\* C18: with the empty search term and the selector 'all' every filter (name
\* only, or name, description and ability) answers true for a well-formed record.
C18_EmptyTermMatchesAll ==
    (shown.by # "none" /\ WellFormed(registration)
        /\ searchTerm = Text("") /\ modelAbility = "all") => shown.result = "true"

\* C18 witness: the filter with a category answered true for a well-formed
\* record with a name, the term empty and the selector on 'all'.
C18_Witness ==
    /\ shown.by = "LaunchModel" /\ shown.result = "true"
    /\ WellFormed(registration) /\ registration.model_name = Text("Ab")
    /\ searchTerm = Text("") /\ modelAbility = "all"

\* C19: the filter with a category answers false whenever the category is not
\* 'all' and is no element of the model_ability set of the record, whatever the
\* term, the name and the description.
C19_AbilityExcludes ==
    (shown.by = "LaunchModel" /\ registration.given /\ registration.hasAbility
        /\ modelAbility # "all" /\ modelAbility \notin registration.model_ability)
      => shown.result = "false"

\* C19 witness: a record whose name matches the term and whose abilities lack
\* the selected one.
C19_Witness ==
    /\ shown.by = "LaunchModel" /\ shown.result = "false"
    /\ registration.given /\ registration.hasAbility
    /\ registration.model_name = Text("Ab") /\ searchTerm = Text("aB")
    /\ modelAbility = "chat" /\ registration.model_ability = {"generate"}

\* The record lacks something the filter by reads.
Lacks(by) ==
    \/ registration.model_name.type # "string"
    \/ by # "LaunchImage" /\ registration.model_description.type # "string"
    \/ by = "LaunchModel" /\ modelAbility # "all" /\ ~registration.hasAbility

\* C20: a filter answers false, and raises nothing, when the record is absent,
\* when the term is no text, and when the record lacks a text field the filter
\* reads or the model_ability set a category other than 'all' needs.
C20_MalformedExcluded ==
    (shown.by \in {"LaunchImage", "LaunchModel"}
        /\ (~registration.given \/ searchTerm.type # "string" \/ Lacks(shown.by)))
      => shown.result = "false"

\* Two strings that differ at most in the case of their letters.
UpperChar(c) == IF c = "a" THEN "A" ELSE IF c = "b" THEN "B" ELSE c
SameLetters(s, t) ==
    /\ Len(s) = Len(t)
    /\ \A k \in 1..Len(s) : UpperChar(SubSeq(s, k, k)) = UpperChar(SubSeq(t, k, k))
\* The term occurs in the field, case apart; a field the record lacks is read as ''.
Occurs(term, field) ==
    LET str == IF field.type = "string" THEN field.chars ELSE ""
    IN \E i \in 0..(Len(str) - Len(term)) : SameLetters(SubSeq(str, i + 1, i + Len(term)), term)
\* The record with the letters of its text fields in upper case.
RECURSIVE UpperCase(_)
UpperCase(str) ==
    IF str = "" THEN "" ELSE UpperChar(SubSeq(str, 1, 1)) \o UpperCase(SubSeq(str, 2, Len(str)))
UpperField(v) == IF v.type = "string" THEN Text(UpperCase(v.chars)) ELSE v
UpperRecord(reg) ==
    [reg EXCEPT !.model_name = UpperField(@), !.model_description = UpperField(@)]

\* C21: the text part of a filter is a case-insensitive substring match: the
\* name-only filter answers true iff the term occurs in model_name, case apart;
\* the filter of name and description (selector on 'all') iff it occurs in at
\* least one of the two; and the answer is the one for the record and the term
\* written in upper case.
C21_CaseInsensitiveSubstring ==
    (shown.by \in {"LaunchImage", "LaunchModel"} /\ registration.given
        /\ searchTerm.type = "string") =>
        /\ shown.by = "LaunchImage" =>
              /\ (shown.result = "true") = Occurs(searchTerm.chars, registration.model_name)
              /\ shown.result = LaunchImage_filter(UpperRecord(registration),
                                                    UpperField(searchTerm))
        /\ (shown.by = "LaunchModel" /\ modelAbility = "all") =>
              /\ (shown.result = "true") =
                    (\/ Occurs(searchTerm.chars, registration.model_name)
                     \/ Occurs(searchTerm.chars, registration.model_description))
              /\ shown.result = LaunchModel_filter(UpperRecord(registration),
                                                    UpperField(searchTerm), modelAbility)

\* C21 witness: the term occurs in the description only, in another case.
C21_Witness ==
    /\ shown.by = "LaunchModel" /\ shown.result = "true" /\ modelAbility = "all"
    /\ registration.given
    /\ registration.model_name = Text("b") /\ registration.model_description = Text("Ab")
    /\ searchTerm = Text("aB")

\* The invocations with a list GET outstanding, and those with a create POST, a
\* terminate DELETE, a UI-create or a gradio POST outstanding.
Reads == {x \in invs : x.pending \cap {"LIST_GET", "DASH_GET"} # {}}
Writes == {x \in invs : x.pending \cap (MutatingRequests \cup {"DASH_DELETE"}) # {}}

\* C22: the flags do not exclude a list GET overlapping a mutating request.  The
\* overlap is reachable (the witness); what holds of every overlap: in
\* RunningModels the GET is one of a view that was unmounted since, never the
\* GET of the mounted view; in ModelDashboard isCalling is held by the DELETE
\* alone, the GET outstanding next to it was issued before the click.
C22_OverlapOnlyWithStaleGet ==
    \A x \in Reads, y \in Writes :
        /\ "LIST_GET" \in x.pending => ~x.live /\ isCallingApi
        /\ "DASH_GET" \in x.pending => (y.live => isCalling) /\ x.id # y.id

\* C22 witness: a terminate DELETE and a list GET are outstanding together.
C22_Witness ==
    \E x \in Reads, y \in Writes : "LIST_GET" \in x.pending /\ "DELETE" \in y.pending

\* out is the subsequence of regs whose elements have is_builtin true: its k-th
\* element is the element of regs at the k-th index that has is_builtin true.
BuiltinIndexes(regs) == {i \in 1..Len(regs) : regs[i].is_builtin}
IsBuiltinSubsequence(out, regs) ==
    LET idx == BuiltinIndexes(regs)
        nth(k) == CHOOSE i \in idx : Cardinality({j \in idx : j <= i}) = k
    IN /\ Len(out) = Cardinality(idx)
       /\ \A k \in 1..Len(out) : out[k] = regs[nth(k)]

\* What C23 says of the panels that fetch with one GET: the fetch that succeeds
\* leaves in registrationData of the panel that issued it the subsequence of the
\* response with is_builtin true, in the order of the response (the fetch of a
\* panel since unmounted changes nothing of the mounted one); the one that fails
\* leaves registrationData unchanged; both end with isCallingApi false; typing a
\* search term and changing the ability selector leave registrationData unchanged.
OneGetFrame ==
    /\ \A x \in invs, regs \in PanelResponses :
            RegFetchDone(x, regs) =>
                /\ ~isCallingApi'
                /\ IF x.live THEN IsBuiltinSubsequence(registrationData', regs)
                             ELSE registrationData' = registrationData
    /\ \A x \in invs :
            RegFetchFailed(x) => ~isCallingApi' /\ registrationData' = registrationData
    /\ (searchTerm' # searchTerm \/ modelAbility' # modelAbility) /\ page' = page =>
            registrationData' = registrationData

\* The step in which Promise.all of LaunchModel.update resolves, for the mounted panel.
DetailsResolve(x) ==
    /\ x.kind = "regDetails" /\ x.live
    /\ \/ RegListDone(x, <<>>)
       \/ \E rq \in x.pending : x.pending = {rq} /\ DetailDone(x, rq, TRUE)

\* The step in which LaunchModel.update fails: at its list GET, or at the first
\* detail GET that is rejected.
DetailsReject(x) ==
    \/ RegListFailed(x)
    \/ x.kind = "regDetails" /\ \E rq \in x.pending : DetailDone(x, rq, FALSE)

\* C23 as stated, of every launch panel: after a fetch that succeeds
\* registrationData is the subsequence of the returned registrations with
\* is_builtin true, also in the panel that fetches the details.
C23_Original ==
    [][/\ OneGetFrame
       /\ \A x \in invs :
            DetailsResolve(x) => IsBuiltinSubsequence(registrationData', Details(x.data))]_vars

\* C23, amended: the panels that fetch with one GET keep the built-in
\* registrations of the response, in its order; the panel that fetches the
\* details keeps one detail record for every registration of the response, in
\* its order, built-in or not; a fetch that fails leaves registrationData unchanged;
\* every fetch ends with isCallingApi false; the search box and the selector
\* leave registrationData unchanged.
C23_Amended ==
    [][/\ OneGetFrame
       /\ \A x \in invs :
            /\ DetailsResolve(x) =>
                  /\ ~isCallingApi'
                  /\ Len(registrationData') = Len(x.data)
                  /\ \A k \in 1..Len(x.data) :
                        /\ registrationData'[k].model_name = x.data[k].model_name
                        /\ registrationData'[k].is_builtin = x.data[k].is_builtin
            /\ DetailsReject(x) => ~isCallingApi' /\ registrationData' = registrationData]_vars

\* C23 witness: the panel shows the two built-in registrations of a response,
\* and its search term and selector have been changed.
C23_Witness ==
    /\ page = "launch" /\ Len(registrationData) = 2
    /\ searchTerm # Text("") /\ modelAbility # "all"

\* The handlers that call setIsCallingApi(true), and the invocations of them
\* that have a request outstanding (ERR_BODY is the read of a body, not a request).
FlagSetters == {"terminate", "openUi", "launchAudio", "launchCard", "regFetch",
                "regDetails", "regDetailsRejected"}
Requesting == {x \in invs : x.kind \in FlagSetters /\ x.pending \ {"ERR_BODY"} # {}}

\* C24: isCallingApi is never false while a request of an invocation that set it
\* is outstanding, the detail GETs issued in parallel by the registration fetch
\* of LaunchModel included.
C24_FlagHeldWhileOutstanding == Requesting # {} => isCallingApi

\* C25: isUpdatingModel is true in every state in which a list GET started by
\* RunningModels.update is outstanding, whatever was mounted, unmounted, clicked
\* or answered before.
C25_UpdatingWhileListGet ==
    (\E x \in invs : x.kind = "refresh" /\ "LIST_GET" \in x.pending) => isUpdatingModel

\* C26: no flag is stuck: when isCallingApi is true, an invocation of a handler
\* that sets it has a request outstanding or a callback pending; when
\* isUpdatingModel is true, a list GET of RunningModels.update is outstanding;
\* with nothing outstanding and nothing pending both flags are false.
C26_NoStuckFlag ==
    /\ isCallingApi => \E x \in invs : x.kind \in FlagSetters /\ x.pending # {}
    /\ isUpdatingModel => \E x \in invs : x.kind = "refresh" /\ "LIST_GET" \in x.pending
    /\ (\A x \in invs : x.pending = {}) => ~isCallingApi /\ ~isUpdatingModel

\* C26 witness: every request has been answered after both flags had been set:
\* a refresh failed last, a handler that sets isCallingApi ran before it.
C26_Witness ==
    /\ invs = {} /\ fin.kind = "refresh" /\ fin.outcome = 0
    /\ lists = PlaceholderLists

\* RunningModels is mounted, its four lists hold the placeholder row and both
\* flags are false.
PlaceholderAtRest ==
    /\ page = "running_models" /\ lists = PlaceholderLists
    /\ ~isCallingApi /\ ~isUpdatingModel

\* C27: the placeholder rows are removed only by a refresh that succeeds: when
\* both flags are false and the refresh that ended last succeeded, no list
\* of the mounted view holds the placeholder; a refresh that fails leaves the
\* placeholder in the four lists; and the lists keep it while both flags are
\* false, until a refresh of the view succeeds.
C27_PlaceholderUntilRefresh ==
    /\ [](fin.kind = "refresh" /\ fin.outcome = 204 /\ ~isCallingApi /\ ~isUpdatingModel
            => \A n \in DOMAIN lists : Placeholder \notin RowsOf(lists[n]))
    /\ [][/\ \A x \in invs :
                 RefreshFailed(x) /\ lists = PlaceholderLists /\ ~isCallingApi'
                     => lists' = PlaceholderLists
          /\ PlaceholderAtRest /\ page' = page
                 => \/ PlaceholderAtRest'
                    \/ \E x \in invs, data \in ServerMaps : x.live /\ RefreshDone(x, data)]_vars

\* C28: the follow-up steps do not look at the status of the response before
\* them.  In the 404 branch of Launch Web UI the window is opened exactly when
\* the create POST resolves, with whatever status, and its body is JSON.  In the
\* launch of a ModelCard every answer to the create POST, 2xx or not, is followed
\* by the gradio POST, and every answer to the gradio POST by window.open.
C28_StatusNotExamined ==
    [][/\ \A x \in invs, o \in Outcomes, json \in BOOLEAN :
            UiPostDone(x, o, json) =>
                /\ fin'.opened <=> (~IsRejected(o) /\ json)
                /\ Has(hlog', "window.open") <=> (~IsRejected(o) /\ json)
       /\ \A x \in invs, o \in Outcomes \ {0} :
            /\ CardCreateDone(x, o) =>
                  \E y \in invs' : y.id = x.id /\ y.pending = {"GRADIO_POST"}
            /\ CardGradioDone(x, o) => fin'.opened /\ Has(hlog', "window.open")]_vars

\* C28 witness: Launch Web UI has opened the window after its probe was answered
\* 404 and its create POST 500.
C28_Witness ==
    /\ fin.kind = "openUi" /\ fin.opened
    /\ fin.probe = 404 /\ fin.outcome = 500

\* The registration fetches, and the step that mounts a launch panel.
FetchKinds == {"regFetch", "regDetails", "regDetailsRejected"}
PanelMounts == page' \in Panels /\ page' # page

\* C29: a launch panel fetches its registrations only in its mount effect: a
\* registration fetch starts only in the step that mounts a panel; when a flag
\* is true at that step no request is issued; and registrationData changes
\* within a mount only by a fetch of that mount, so that after a skipped fetch
\* it stays empty until the panel is left, whatever the flags become.
C29_FetchOnlyAtMount ==
    [][/\ Has(hlog', "REG_GET") => PanelMounts
       /\ PanelMounts /\ (isCallingApi \/ isUpdatingModel) =>
            /\ hlog' = <<"navigate">>
            /\ {y.id : y \in invs'} = {x.id : x \in invs}
            /\ registrationData' = <<>>
       /\ page \in Panels /\ page' = page /\ ~(\E x \in invs : x.live /\ x.kind \in FetchKinds) =>
            /\ registrationData' = registrationData
            /\ ~(\E y \in invs' : y.live /\ y.kind \in FetchKinds)]_vars

\* C29 witness: a launch panel shows no registration and has nothing
\* outstanding, both flags are false, and the refresh of the view it replaced
\* was just answered (the panel was mounted while that refresh was outstanding).
C29_Witness ==
    /\ page \in Panels /\ registrationData = <<>>
    /\ ~isCallingApi /\ ~isUpdatingModel
    /\ invs = {} /\ fin.kind = "refresh" /\ ~fin.live

\* C30: on the card that issued it, a registration DELETE that resolves sets
\* customDeleted to true whatever its status, and one that rejects leaves
\* customDeleted as it was; while the card is mounted customDeleted never goes
\* from true to false, and selected never goes from false to true while
\* customDeleted is true.
C30_CustomDeletedLatch ==
    [][/\ \A x \in invs, o \in Outcomes :
            CustomDeleteDone(x, o) /\ x.live =>
                customDeleted' = IF o = 0 THEN customDeleted ELSE TRUE
       /\ customDeleted /\ page' = page => customDeleted'
       /\ customDeleted /\ ~selected /\ page' = page => ~selected']_vars

\* C30 witness: the DELETE of the mounted card was answered 500 and
\* customDeleted is true, the card not selected.
C30_Witness ==
    /\ fin.kind = "customDelete" /\ fin.outcome = 500 /\ fin.live
    /\ customDeleted /\ ~selected

====
